---- MODULE Spec2Model ----
(***************************************************************************)
(* The FRITIME auth service (src/api.py, src/models.py, src/security.py,   *)
(* src/db.py): two tables behind a relational store and the request        *)
(* handlers that read and insert into them.                                *)
(*                                                                         *)
(* Every database statement of a writing handler (create_user, add_friend) *)
(* is one step, so that the statements of two requests can interleave.     *)
(* A reading handler (login, list_friends, get_user) writes nothing; it   *)
(* is one step.  Spec serves one request at a time (a sequence of calls); *)
(* SpecConc runs the writing handlers on two workers at once; SpecAuth     *)
(* serves registration, login and /users/me over long passwords and over  *)
(* tokens up to and past their expiry; SpecSession runs every handler on   *)
(* two workers, each request served to its end.                            *)
(***************************************************************************)
EXTENDS Integers, Sequences, FiniteSets, TLC

VARIABLES
    dialect,    \* the storage backend DATABASE_URL selects (src/db.py)
    users,      \* table "users": the committed rows, in rowid (insertion) order
    friends,    \* table "friends": the committed rows, in rowid (insertion) order
    pc,         \* per worker: where its request handler stands
    req,        \* per worker: the request it serves (kept with the response)
    found,      \* per worker: add_friend's local `user` was truthy
    resp,       \* per worker: the response of its last finished request
    session     \* per worker: the storage session of get_db

vars == <<dialect, users, friends, pc, req, found, resp, session>>

-----------------------------------------------------------------------------
(* Bounds of the model and the inputs drawn from them.                     *)

MaxId == 2
MaxFriendRows == 2
MaxSkip == 2
MaxNow == 1

Workers == {"w1", "w2"}
Ids == 1..MaxId
Emails == {"a@x.com", "b@x.com"}
\* passwords are sequences of Unicode code points
Passwords == {<<112>>, <<113>>}
Names == {"Ana", "Bor"}
Salts == {"salt"}
Times == 0..MaxNow
Omitted == <<>>
SkipInputs == {Omitted} \cup {<<s>> : s \in (0 - 1)..MaxSkip}
LimitInputs == {Omitted} \cup {<<l>> : l \in {0, 1, 2, 100, 101}}
Dialects == {"sqlite", "postgresql"}

-----------------------------------------------------------------------------
(* Program constants.                                                      *)

ACCESS_TOKEN_EXPIRE_MINUTES == 60
JWT_SECRET == "DEV_SECRET"
ALGORITHM == "HS256"
BcryptMaxBytes == 72
DefaultSkip == 0
DefaultLimit == 10
MaxLimit == 100

-----------------------------------------------------------------------------
(* Responses.  An HTTPException(status, detail) becomes {"detail": detail}; *)
(* a detail is kept as its sequence of words.                              *)

NoReq == [op |-> "none"]
NoResp == [status |-> 0]
HTTPException(status, detail) == [status |-> status, detail |-> detail]
Ok(body) == [status |-> 200, body |-> body]
\* an exception no handler catches: the server's generic error response
InternalServerError == [status |-> 500, detail |-> <<"Internal", "Server", "Error">>]

ContainsWords(detail, words) ==
    \E i \in 1..Len(detail) :
        /\ i + Len(words) - 1 <= Len(detail)
        /\ SubSeq(detail, i, i + Len(words) - 1) = words

-----------------------------------------------------------------------------
(* Credential engine (src/security.py).                                    *)

Utf8Len(c) == IF c < 128 THEN 1 ELSE IF c < 2048 THEN 2 ELSE IF c < 65536 THEN 3 ELSE 4

\* password.encode("utf-8"): byte k of the code point c is <<c, k>>
RECURSIVE encode_utf8(_)
encode_utf8(s) ==
    IF s = <<>> THEN <<>>
    ELSE [k \in 1..Utf8Len(Head(s)) |-> <<Head(s), k>>] \o encode_utf8(Tail(s))

\* bytes.decode("utf-8", errors="ignore"): a code point cut short is dropped
RECURSIVE decode_utf8_ignore(_)
decode_utf8_ignore(b) ==
    IF b = <<>> THEN <<>>
    ELSE LET c == b[1][1]
             n == Utf8Len(c)
         IN  IF Len(b) >= n
             THEN <<c>> \o decode_utf8_ignore(SubSeq(b, n + 1, Len(b)))
             ELSE <<>>

_normalize_password(password) ==
    LET pwd_bytes == encode_utf8(password)
        cut == IF Len(pwd_bytes) > BcryptMaxBytes
               THEN SubSeq(pwd_bytes, 1, BcryptMaxBytes)
               ELSE pwd_bytes
    IN  decode_utf8_ignore(cut)

\* pwd_context.hash / pwd_context.verify: a salted one-way hash, the salt
\* kept in the hash string; the digest is the pair it was computed from
bcrypt_hash(secret, salt) ==
    [scheme |-> "bcrypt", salt |-> salt, checksum |-> <<salt, secret>>]
bcrypt_verify(secret, hashed) == hashed.checksum = <<hashed.salt, secret>>

hash_password(password, salt) == bcrypt_hash(_normalize_password(password), salt)

\* mutant of verify_password: the password is verified as it was typed
verify_password_raw(plain, hashed) == bcrypt_verify(plain, hashed)

verify_password(plain, hashed) == bcrypt_verify(_normalize_password(plain), hashed)

\* str(n) for n >= 0
Digits == <<"0", "1", "2", "3", "4", "5", "6", "7", "8", "9">>
RECURSIVE str(_)
str(n) == IF n < 10 THEN <<Digits[n + 1]>> ELSE str(n \div 10) \o <<Digits[(n % 10) + 1]>>

\* jwt.encode: header.payload.signature, the signature being the MAC of the
\* header and the payload under the key
jwt_sign(header, payload, key) == <<key, header, payload>>
jwt_encode(payload, key, algorithm) ==
    LET header == [alg |-> algorithm, typ |-> "JWT"]
    IN  [header |-> header, payload |-> payload,
         signature |-> jwt_sign(header, payload, key)]

\* jwt.decode: the claims in a one-element sequence, or <<>> where it raises
\* a JWTError (not three segments, an algorithm that is not allowed, a
\* signature that does not verify, an `exp` before now)
jwt_decode(token, key, algorithms, now) ==
    IF DOMAIN token # {"header", "payload", "signature"} THEN <<>>
    ELSE IF token.header.alg \notin algorithms THEN <<>>
    ELSE IF token.signature # jwt_sign(token.header, token.payload, key) THEN <<>>
    ELSE IF token.payload.exp < now THEN <<>>
    ELSE <<token.payload>>

\* time is counted in minutes; `now` is datetime.utcnow()
create_access_token(data, now) ==
    LET payload == ("exp" :> now + ACCESS_TOKEN_EXPIRE_MINUTES) @@ data
    IN  jwt_encode(payload, JWT_SECRET, ALGORITHM)

\* mutant of decode_token: the expiry of the token is not verified
decode_token_no_expiry(token, now) ==
    IF DOMAIN token # {"header", "payload", "signature"} THEN <<>>
    ELSE jwt_decode(token, JWT_SECRET, {ALGORITHM}, token.payload.exp)

\* The JWTError is caught: None (the empty sequence) is returned for it.
decode_token(token, now) == jwt_decode(token, JWT_SECRET, {ALGORITHM}, now)

-----------------------------------------------------------------------------
(* Persistence layer: the queries the handlers issue (src/api.py) and the  *)
(* constraints of the tables (src/models.py).                              *)

\* Query.first(): the first row of a result, or None (the empty sequence)
first(rows) == IF rows = <<>> THEN <<>> ELSE <<Head(rows)>>

UserByEmail(email) == first(SelectSeq(users, LAMBDA u : u.email = email))
UserById(id) == first(SelectSeq(users, LAMBDA u : u.id = id))

KeyLE(a, b) ==
    \/ a.user_id < b.user_id
    \/ a.user_id = b.user_id /\ a.friend_id <= b.friend_id

RECURSIVE SortByPrimaryKey(_)
SortByPrimaryKey(rows) ==
    IF rows = <<>> THEN <<>>
    ELSE LET row == rows[Len(rows)]
             sorted == SortByPrimaryKey(SubSeq(rows, 1, Len(rows) - 1))
             k == Cardinality({i \in 1..Len(sorted) : KeyLE(sorted[i], row)})
         IN  SubSeq(sorted, 1, k) \o <<row>> \o SubSeq(sorted, k + 1, Len(sorted))

\* The friends queries carry no ORDER BY: the rows come in the order of the
\* access path of the backend.  SQLite searches the index of the primary key
\* (user_id, friend_id); PostgreSQL scans the heap, which for a table that is
\* only appended to is the insertion order.
ScanOrder(rows) == IF dialect = "sqlite" THEN SortByPrimaryKey(rows) ELSE rows

\* db.query(Friends).filter(Friends.user_id == user_id)
FriendsOfUser(user_id) == ScanOrder(SelectSeq(friends, LAMBDA f : f.user_id = user_id))

\* db.query(Friends).filter(user_id ==, friend_id ==).first()
FriendRow(user_id, friend_id) ==
    first(SelectSeq(friends, LAMBDA f : f.user_id = user_id /\ f.friend_id = friend_id))

Min(a, b) == IF a <= b THEN a ELSE b

\* mutant of OffsetLimit: the offset is dropped
OffsetLimit_no_offset(rows, skip, limit) == SubSeq(rows, 1, Min(Len(rows), limit))

\* .offset(skip).limit(limit).all()
OffsetLimit(rows, skip, limit) == SubSeq(rows, skip + 1, Min(Len(rows), skip + limit))

\* mutant of UsersConstraintsHold: a table without its keys
UsersConstraintsOff(row) == TRUE

\* users: PRIMARY KEY (id), UNIQUE (email)
UsersConstraintsHold(row) ==
    \A i \in 1..Len(users) : users[i].id # row.id /\ users[i].email # row.email

\* friends: PRIMARY KEY (user_id, friend_id)
FriendsConstraintsHold(row) ==
    \A i \in 1..Len(friends) :
        ~(friends[i].user_id = row.user_id /\ friends[i].friend_id = row.friend_id)

\* mutant of User_friends: the row is read after its session was closed
User_friends_detached(user, sess) == <<>>

\* User.friends: the friend ids, read through the session the row is attached to
User_friends(user, sess) ==
    IF sess = "none" THEN <<>>
    ELSE LET friend_records == FriendsOfUser(user.id)
         IN  [i \in 1..Len(friend_records) |-> friend_records[i].friend_id]

-----------------------------------------------------------------------------
(* The state after startup: init() has created the two tables, empty.      *)

Init ==
    /\ dialect \in Dialects
    /\ users = <<>>
    /\ friends = <<>>
    /\ pc = [w \in Workers |-> "idle"]
    /\ req = [w \in Workers |-> NoReq]
    /\ found = [w \in Workers |-> FALSE]
    /\ resp = [w \in Workers |-> NoResp]
    /\ session = [w \in Workers |-> "none"]

\* an idle worker takes the next request
Ready(w) == pc[w] = "idle"

\* SessionLocal(): a new Session object, none of those that are open; there
\* are never more open sessions than workers
SessionIds == {"s1", "s2"}
SessionLocal == CHOOSE s \in SessionIds : \A w \in Workers : session[w] # s

\* the session get_db has yielded to the request of w: made when the request
\* starts, the same one until the request is over
get_db(w) == IF session[w] = "none" THEN SessionLocal ELSE session[w]

\* get_db yields a fresh session and the handler runs on to its next statement
Continue(w, request, next) ==
    /\ req' = [req EXCEPT ![w] = request]
    /\ pc' = [pc EXCEPT ![w] = next]
    /\ resp' = [resp EXCEPT ![w] = NoResp]
    /\ session' = [session EXCEPT ![w] = get_db(w)]

\* the handler returns or raises, which fixes the response; the session of
\* the request is still open
Finish(w, request, response) ==
    /\ req' = [req EXCEPT ![w] = request]
    /\ pc' = [pc EXCEPT ![w] = "done"]
    /\ resp' = [resp EXCEPT ![w] = response]
    /\ session' = [session EXCEPT ![w] = get_db(w)]

\* mutant of get_db_close: no try/finally, the session is closed only after
\* a handler that returned
get_db_close_after_return(w) ==
    /\ pc[w] = "done"
    /\ pc' = [pc EXCEPT ![w] = "idle"]
    /\ req' = [req EXCEPT ![w] = NoReq]
    /\ resp' = [resp EXCEPT ![w] = NoResp]
    /\ session' = [session EXCEPT ![w] = IF resp[w].status = 200 THEN "none" ELSE @]
    /\ UNCHANGED <<dialect, users, friends, found>>

\* get_db's finally: db.close(); the request is over and the worker is free
get_db_close(w) ==
    /\ pc[w] = "done"
    /\ pc' = [pc EXCEPT ![w] = "idle"]
    /\ req' = [req EXCEPT ![w] = NoReq]
    /\ resp' = [resp EXCEPT ![w] = NoResp]
    /\ session' = [session EXCEPT ![w] = "none"]
    /\ UNCHANGED <<dialect, users, friends, found>>

-----------------------------------------------------------------------------
(* GET /health                                                             *)

health(w) ==
    /\ Ready(w)
    /\ req' = [req EXCEPT ![w] = [op |-> "health"]]
    /\ pc' = [pc EXCEPT ![w] = "done"]
    /\ resp' = [resp EXCEPT ![w] = Ok([status |-> "ok"])]
    /\ UNCHANGED <<dialect, users, friends, found, session>>

-----------------------------------------------------------------------------
(* POST /users                                                             *)

UserCreates == [userId : Ids, email : Emails, password : Passwords]

\* if db.query(User).filter(User.email == user.email).first(): raise 400
create_user_email(w, user) ==
    /\ Ready(w)
    /\ LET request == [op |-> "create_user", user |-> user]
       IN  IF UserByEmail(user.email) # <<>>
           THEN Finish(w, request, HTTPException(400, <<"User", "already", "exists">>))
           ELSE Continue(w, request, "create_user_id")
    /\ UNCHANGED <<dialect, users, friends, found>>

\* mutant of create_user_id: the id is not looked up
create_user_id_unchecked(w) ==
    /\ pc[w] = "create_user_id"
    /\ Continue(w, req[w], "create_user_commit")
    /\ UNCHANGED <<dialect, users, friends, found>>

\* if db.query(User).filter(User.id == user.userId).first(): raise 400
create_user_id(w) ==
    /\ pc[w] = "create_user_id"
    /\ IF UserById(req[w].user.userId) # <<>>
       THEN Finish(w, req[w], HTTPException(400, <<"User", "ID", "already", "exists">>))
       ELSE Continue(w, req[w], "create_user_commit")
    /\ UNCHANGED <<dialect, users, friends, found>>

\* new_user = User(...); db.add(new_user); db.commit(); db.refresh(new_user)
\* The INSERT is checked against the constraints of the table; the
\* IntegrityError of a violated one is caught nowhere.
create_user_commit(w, salt) ==
    /\ pc[w] = "create_user_commit"
    /\ LET user == req[w].user
           new_user == [id |-> user.userId,
                        email |-> user.email,
                        hashed_password |-> hash_password(user.password, salt),
                        is_active |-> TRUE]
       IN  IF UsersConstraintsHold(new_user)
           THEN /\ users' = Append(users, new_user)
                /\ Finish(w, req[w], Ok([id |-> new_user.id, email |-> new_user.email]))
           ELSE /\ users' = users
                /\ Finish(w, req[w], InternalServerError)
    /\ UNCHANGED <<dialect, friends, found>>

-----------------------------------------------------------------------------
(* POST /users/{user_id}/friends                                           *)

FriendReqs == [friend_id : Ids, name : Names]

\* user = db.query(User).filter(User.id == user_id).first()
add_friend_user(w, user_id, rq) ==
    /\ Ready(w)
    /\ Continue(w, [op |-> "add_friend", user_id |-> user_id, rq |-> rq], "add_friend_friend")
    /\ found' = [found EXCEPT ![w] = UserById(user_id) # <<>>]
    /\ UNCHANGED <<dialect, users, friends>>

\* mutant of add_friend_friend: only `user` is tested
add_friend_friend_unchecked(w) ==
    /\ pc[w] = "add_friend_friend"
    /\ IF ~found[w]
       THEN Finish(w, req[w], HTTPException(404, <<"User", "not", "found">>))
       ELSE Continue(w, req[w], "add_friend_existing")
    /\ found' = [found EXCEPT ![w] = FALSE]
    /\ UNCHANGED <<dialect, users, friends>>

\* friend = db.query(User)...first(); if not user or not friend: raise 404
add_friend_friend(w) ==
    /\ pc[w] = "add_friend_friend"
    /\ LET friend == UserById(req[w].rq.friend_id)
       IN  IF ~found[w] \/ friend = <<>>
           THEN Finish(w, req[w], HTTPException(404, <<"User", "not", "found">>))
           ELSE Continue(w, req[w], "add_friend_existing")
    /\ found' = [found EXCEPT ![w] = FALSE]
    /\ UNCHANGED <<dialect, users, friends>>

\* if db.query(Friends).filter(...).first(): raise 400
\* mutant of add_friend_existing: a second add of the pair removes its row
add_friend_existing_unfriends(w) ==
    /\ pc[w] = "add_friend_existing"
    /\ IF FriendRow(req[w].user_id, req[w].rq.friend_id) # <<>>
       THEN /\ friends' = SelectSeq(friends, LAMBDA f :
                               ~(f.user_id = req[w].user_id
                                 /\ f.friend_id = req[w].rq.friend_id))
            /\ Finish(w, req[w], HTTPException(400, <<"Friendship", "already", "exists">>))
       ELSE /\ friends' = friends
            /\ Continue(w, req[w], "add_friend_commit")
    /\ UNCHANGED <<dialect, users, found>>

add_friend_existing(w) ==
    /\ pc[w] = "add_friend_existing"
    /\ IF FriendRow(req[w].user_id, req[w].rq.friend_id) # <<>>
       THEN Finish(w, req[w], HTTPException(400, <<"Friendship", "already", "exists">>))
       ELSE Continue(w, req[w], "add_friend_commit")
    /\ UNCHANGED <<dialect, users, friends, found>>

\* mutant of add_friend_commit: the friendship is stored in both directions
add_friend_commit_mutual(w) ==
    /\ pc[w] = "add_friend_commit"
    /\ LET row == [user_id |-> req[w].user_id,
                   friend_id |-> req[w].rq.friend_id,
                   name |-> req[w].rq.name]
           back == [user_id |-> row.friend_id, friend_id |-> row.user_id, name |-> row.name]
       IN  IF FriendsConstraintsHold(row)
           THEN /\ friends' = IF FriendsConstraintsHold(back) /\ back # row
                               THEN friends \o <<row, back>>
                               ELSE Append(friends, row)
                /\ Finish(w, req[w], Ok(row))
           ELSE /\ friends' = friends
                /\ Finish(w, req[w], InternalServerError)
    /\ UNCHANGED <<dialect, users, found>>

\* db.add(Friends(...)); db.commit(); return the triple
add_friend_commit(w) ==
    /\ pc[w] = "add_friend_commit"
    /\ LET row == [user_id |-> req[w].user_id,
                   friend_id |-> req[w].rq.friend_id,
                   name |-> req[w].rq.name]
       IN  IF FriendsConstraintsHold(row)
           THEN /\ friends' = Append(friends, row)
                /\ Finish(w, req[w], Ok(row))
           ELSE /\ friends' = friends
                /\ Finish(w, req[w], InternalServerError)
    /\ UNCHANGED <<dialect, users, found>>

-----------------------------------------------------------------------------
(* POST /login                                                             *)

LoginForms == [username : Emails, password : Passwords]

\* mutant of login: the password is not verified
login_any_password(w, form, now) ==
    /\ Ready(w)
    /\ LET user == UserByEmail(form.username)
           request == [op |-> "login", form |-> form, now |-> now]
       IN  IF user = <<>>
           THEN Finish(w, request, HTTPException(401, <<"Invalid", "credentials">>))
           ELSE Finish(w, request,
                       Ok([access_token |-> create_access_token([sub |-> str(user[1].id)], now),
                           token_type |-> "bearer"]))
    /\ UNCHANGED <<dialect, users, friends, found>>

login(w, form, now) ==
    /\ Ready(w)
    /\ LET user == UserByEmail(form.username)
           request == [op |-> "login", form |-> form, now |-> now]
       IN  IF user = <<>> \/ ~verify_password(form.password, user[1].hashed_password)
           THEN Finish(w, request, HTTPException(401, <<"Invalid", "credentials">>))
           ELSE Finish(w, request,
                       Ok([access_token |-> create_access_token([sub |-> str(user[1].id)], now),
                           token_type |-> "bearer"]))
    /\ UNCHANGED <<dialect, users, friends, found>>

-----------------------------------------------------------------------------
(* GET /users/{user_id}/friends                                            *)

Param(given, default) == IF given = Omitted THEN default ELSE given[1]

\* mutant of list_friends: the user is looked up before the bounds are checked
list_friends_lookup_first(w, user_id, skipParam, limitParam) ==
    /\ Ready(w)
    /\ LET skip == Param(skipParam, DefaultSkip)
           limit == Param(limitParam, DefaultLimit)
           request == [op |-> "list_friends", user_id |-> user_id,
                       skip |-> skipParam, limit |-> limitParam]
           total == Len(FriendsOfUser(user_id))
           page == OffsetLimit(FriendsOfUser(user_id), skip, limit)
       IN  IF UserById(user_id) = <<>>
           THEN Finish(w, request, HTTPException(404, <<"User", "not", "found">>))
           ELSE IF skip < 0
           THEN Finish(w, request, HTTPException(400, <<"skip", "must", "be", "non-negative">>))
           ELSE IF limit < 1
           THEN Finish(w, request, HTTPException(400, <<"limit", "must", "be", "at", "least", "1">>))
           ELSE IF limit > MaxLimit
           THEN Finish(w, request, HTTPException(400, <<"limit", "cannot", "exceed", "100">>))
           ELSE Finish(w, request,
                       Ok([items |-> [i \in 1..Len(page) |->
                                         [friend_id |-> page[i].friend_id, name |-> page[i].name]],
                           total |-> total,
                           skip |-> skip,
                           limit |-> limit]))
    /\ UNCHANGED <<dialect, users, friends, found>>

list_friends(w, user_id, skipParam, limitParam) ==
    /\ Ready(w)
    /\ LET skip == Param(skipParam, DefaultSkip)
           limit == Param(limitParam, DefaultLimit)
           request == [op |-> "list_friends", user_id |-> user_id,
                       skip |-> skipParam, limit |-> limitParam]
           total == Len(FriendsOfUser(user_id))
           page == OffsetLimit(FriendsOfUser(user_id), skip, limit)
       IN  IF skip < 0
           THEN Finish(w, request, HTTPException(400, <<"skip", "must", "be", "non-negative">>))
           ELSE IF limit < 1
           THEN Finish(w, request, HTTPException(400, <<"limit", "must", "be", "at", "least", "1">>))
           ELSE IF limit > MaxLimit
           THEN Finish(w, request, HTTPException(400, <<"limit", "cannot", "exceed", "100">>))
           ELSE IF UserById(user_id) = <<>>
           THEN Finish(w, request, HTTPException(404, <<"User", "not", "found">>))
           ELSE Finish(w, request,
                       Ok([items |-> [i \in 1..Len(page) |->
                                         [friend_id |-> page[i].friend_id, name |-> page[i].name]],
                           total |-> total,
                           skip |-> skip,
                           limit |-> limit]))
    /\ UNCHANGED <<dialect, users, friends, found>>

-----------------------------------------------------------------------------
(* GET /users/{user_id}, response_model=UserOut                            *)

\* UserOut is filled from the attributes of the row while the session of the
\* request is still open
UserOut(user, sess) ==
    [id |-> user.id, email |-> user.email, is_active |-> user.is_active,
     friends |-> User_friends(user, sess)]

get_user(w, user_id) ==
    /\ Ready(w)
    /\ LET user == UserById(user_id)
           request == [op |-> "get_user", user_id |-> user_id]
       IN  IF user = <<>>
           THEN Finish(w, request, HTTPException(404, <<"User", "not", "found">>))
           ELSE Finish(w, request, Ok(UserOut(user[1], get_db(w))))
    /\ UNCHANGED <<dialect, users, friends, found>>

-----------------------------------------------------------------------------
(* GET /users/me                                                           *)

\* the tokens login issues: one per subject id and time of issue
LoginTokens == {create_access_token([sub |-> str(id)], t) : id \in Ids, t \in Times}

\* what a client that does not hold the secret makes of an issued token: the
\* payload altered under the old signature, the token signed afresh with
\* another key, the token left unsigned
Tampered(token) ==
    {[token EXCEPT !.payload.sub = str(id)] : id \in Ids} \cup
    {[token EXCEPT !.payload.exp = @ + 1]} \cup
    {jwt_encode(token.payload, "OTHER_SECRET", ALGORITHM)} \cup
    {[header |-> [alg |-> "none", typ |-> "JWT"], payload |-> token.payload,
      signature |-> <<>>]}

\* "Bearer invalid_token": no three segments
Malformed == [raw |-> "invalid_token"]

\* the Authorization header of a request: omitted, or carrying a token
BearerInputs ==
    {Omitted} \cup {<<token>> : token \in LoginTokens \cup {Malformed}
                                  \cup UNION {Tampered(t) : t \in LoginTokens}}

\* the times a token is presented at: up to one minute past its expiry
NowInputs ==
    Times \cup {t + ACCESS_TOKEN_EXPIRE_MINUTES + d : t \in Times, d \in {0, 1}}

\* oauth2_scheme raises 401 for a request without a bearer token before the
\* handler runs; the handler takes no storage session
me(w, bearer, now) ==
    /\ Ready(w)
    /\ LET request == [op |-> "me", token |-> bearer, now |-> now]
           response ==
               IF bearer = Omitted
               THEN HTTPException(401, <<"Not", "authenticated">>)
               ELSE LET payload == decode_token(bearer[1], now)
                    IN  IF payload = <<>>
                        THEN HTTPException(401, <<"Invalid", "token">>)
                        ELSE Ok(payload[1])
       IN  /\ req' = [req EXCEPT ![w] = request]
           /\ pc' = [pc EXCEPT ![w] = "done"]
           /\ resp' = [resp EXCEPT ![w] = response]
    /\ UNCHANGED <<dialect, users, friends, found, session>>

-----------------------------------------------------------------------------
(* Spec: the calls arrive one after the other, each served to its end.     *)
(* SpecConc: two workers run the writing handlers, statement by statement. *)

Server == "w1"

\* the friends table is filled up to MaxFriendRows rows
RoomForFriends == Len(friends) < MaxFriendRows

\* the profile call among the other calls: without a token, and with the
\* token of user 1
SeqBearerInputs == {Omitted, <<create_access_token([sub |-> str(1)], 0)>>}

Next ==
    \/ health(Server)
    \/ \E user \in UserCreates : create_user_email(Server, user)
    \/ create_user_id(Server)
    \/ \E salt \in Salts : create_user_commit(Server, salt)
    \/ \E form \in LoginForms, now \in Times : login(Server, form, now)
    \/ \E user_id \in Ids, rq \in FriendReqs :
          RoomForFriends /\ add_friend_user(Server, user_id, rq)
    \/ add_friend_friend(Server)
    \/ add_friend_existing(Server)
    \/ add_friend_commit(Server)
    \/ \E user_id \in Ids, s \in SkipInputs, l \in LimitInputs : list_friends(Server, user_id, s, l)
    \/ \E user_id \in Ids : get_user(Server, user_id)
    \/ \E bearer \in SeqBearerInputs, now \in Times : me(Server, bearer, now)
    \/ get_db_close(Server)

Spec == Init /\ [][Next]_vars

\* The races are over the keys (id, email, the pair): the fields that are no
\* key take one value each.
ConcUserCreates == {user \in UserCreates : user.password = <<112>>}
ConcFriendReqs == {rq \in FriendReqs : rq.name = "Ana"}

NextConc ==
    \E w \in Workers :
        \/ \E user \in ConcUserCreates : create_user_email(w, user)
        \/ create_user_id(w)
        \/ \E salt \in Salts : create_user_commit(w, salt)
        \/ \E user_id \in Ids, rq \in ConcFriendReqs :
              RoomForFriends /\ add_friend_user(w, user_id, rq)
        \/ add_friend_friend(w)
        \/ add_friend_existing(w)
        \/ add_friend_commit(w)
        \/ get_db_close(w)

SpecConc == Init /\ [][NextConc]_vars

\* SpecSession: two workers serve every call of the router (add_friend is
\* taken up while the friends table is empty), and a request that was taken
\* up is served to its end. The server runs
\* each handler on a thread of its own, so a handler that can take its next
\* statement does, and get_db's finally runs after it.
SessionUserCreates == {user \in ConcUserCreates : user.email = "a@x.com"}
SessionLoginForms == {form \in LoginForms : form.password = <<112>>}

NextSession ==
    \E w \in Workers :
        \/ health(w)
        \/ \E bearer \in SeqBearerInputs : me(w, bearer, 0)
        \/ \E user \in SessionUserCreates : create_user_email(w, user)
        \/ create_user_id(w)
        \/ \E salt \in Salts : create_user_commit(w, salt)
        \/ \E form \in SessionLoginForms : login(w, form, 0)
        \/ \E user_id \in Ids, rq \in ConcFriendReqs :
              friends = <<>> /\ add_friend_user(w, user_id, rq)
        \/ add_friend_friend(w)
        \/ add_friend_existing(w)
        \/ add_friend_commit(w)
        \/ \E user_id \in Ids : list_friends(w, user_id, Omitted, Omitted)
        \/ \E user_id \in Ids : get_user(w, user_id)
        \/ get_db_close(w)

Proceed(w) ==
    \/ create_user_id(w)
    \/ \E salt \in Salts : create_user_commit(w, salt)
    \/ add_friend_friend(w)
    \/ add_friend_existing(w)
    \/ add_friend_commit(w)
    \/ get_db_close(w)

SpecSession ==
    Init /\ [][NextSession]_vars /\ \A w \in Workers : WF_vars(Proceed(w))

\* SpecAuth: registration, login and the profile call, over passwords at the
\* 72-byte limit of bcrypt and over tokens presented up to their expiry and
\* past it.
Letters(c, n) == [i \in 1..n |-> c]
AuthPasswords ==
    {<<112>>,
     Letters(97, BcryptMaxBytes - 1),
     Letters(97, BcryptMaxBytes - 1) \o <<233>>,
     Letters(97, BcryptMaxBytes - 1) \o <<233, 120>>,
     Letters(97, BcryptMaxBytes),
     Letters(97, BcryptMaxBytes) \o <<98>>,
     Letters(97, BcryptMaxBytes) \o <<99>>}
AuthUserCreates == [userId : Ids, email : Emails, password : AuthPasswords]
AuthLoginForms == [username : Emails, password : AuthPasswords]

NextAuth ==
    \/ \E user \in AuthUserCreates : create_user_email(Server, user)
    \/ create_user_id(Server)
    \/ \E salt \in Salts : create_user_commit(Server, salt)
    \/ \E form \in AuthLoginForms, now \in Times : login(Server, form, now)
    \/ \E bearer \in BearerInputs, now \in NowInputs : me(Server, bearer, now)
    \/ get_db_close(Server)

SpecAuth == Init /\ [][NextAuth]_vars

-----------------------------------------------------------------------------
(* What the claims speak of.                                               *)

UserStored(id) == \E i \in 1..Len(users) : users[i].id = id
EmailStored(email) == \E i \in 1..Len(users) : users[i].email = email
PairStored(user_id, friend_id) ==
    \E i \in 1..Len(friends) :
        friends[i].user_id = user_id /\ friends[i].friend_id = friend_id
\* the rows of a user's friendships, in the order add_friend stored them
RowsOfUser(user_id) == SelectSeq(friends, LAMBDA f : f.user_id = user_id)
ToSet(seq) == {seq[i] : i \in 1..Len(seq)}
Max(a, b) == IF a >= b THEN a ELSE b

Done(w, op) == pc[w] = "done" /\ req[w].op = op
IsConflict(response) ==
    /\ response.status = 400
    /\ ContainsWords(response.detail, <<"already", "exists">>)
NotFound == HTTPException(404, <<"User", "not", "found">>)
Unauthorized == HTTPException(401, <<"Invalid", "credentials">>)

\* worker w takes a step of a create_user / an add_friend request
CreateUserStep(w) == pc'[w] # pc[w] /\ req'[w].op = "create_user"
AddFriendStep(w) == pc'[w] # pc[w] /\ req'[w].op = "add_friend"

-----------------------------------------------------------------------------
\* C1: in a sequence of calls, a register call whose email or whose userId is
\* that of a stored user never reaches the insert: each of its steps leaves both
\* tables as they are, and it ends with status 400 and a detail that contains
\* "already exists", whatever its other fields are.
C1_DuplicateRegisterConflicts ==
    [][\A w \in Workers :
        (/\ CreateUserStep(w)
         /\ (EmailStored(req'[w].user.email) \/ UserStored(req'[w].user.userId)))
        => /\ users' = users
           /\ friends' = friends
           /\ pc'[w] # "create_user_commit"
           /\ (pc[w] = "create_user_id" => pc'[w] = "done")
           /\ (pc'[w] = "done" => IsConflict(resp'[w]))]_vars

\* a register call was refused for its userId alone: the stored user of that id
\* has another email and another password
C1_Witness ==
    \E w \in Workers :
        /\ Done(w, "create_user")
        /\ IsConflict(resp[w])
        /\ ~EmailStored(req[w].user.email)
        /\ \E i \in 1..Len(users) :
              /\ users[i].id = req[w].user.userId
              /\ ~verify_password(req[w].user.password, users[i].hashed_password)

-----------------------------------------------------------------------------
\* C2: in every state two concurrent workers can reach by interleaving the
\* statements of register and add-friend requests, no two rows of users share
\* an id, no two share an email, and no two rows of friends share the ordered
\* pair (user_id, friend_id).
C2_UniqueKeys ==
    /\ \A i, j \in 1..Len(users) :
          i # j => users[i].id # users[j].id /\ users[i].email # users[j].email
    /\ \A i, j \in 1..Len(friends) :
          i # j => ~(/\ friends[i].user_id = friends[j].user_id
                     /\ friends[i].friend_id = friends[j].friend_id)

\* two requests passed the pre-check for the same key, one has inserted its row
\* and the insert of the other was refused by the table
C2_Witness ==
    \E w \in Workers :
        /\ pc[w] = "done"
        /\ resp[w] = InternalServerError
        /\ \/ req[w].op = "create_user" /\ UserStored(req[w].user.userId)
           \/ req[w].op = "add_friend" /\ PairStored(req[w].user_id, req[w].rq.friend_id)

-----------------------------------------------------------------------------
\* C3: a register or add-friend request that lost the race for its key (it
\* passed the pre-check and its insert was refused) ends as the sequential
\* duplicate does, with the Conflict response (400, "... already exists"): a
\* register request ends with 200 or Conflict, an add-friend request with 200,
\* 404 or Conflict.
C3_RaceLoserGetsConflict ==
    \A w \in Workers :
        /\ Done(w, "create_user") => resp[w].status = 200 \/ IsConflict(resp[w])
        /\ Done(w, "add_friend") =>
              resp[w].status = 200 \/ resp[w] = NotFound \/ IsConflict(resp[w])

-----------------------------------------------------------------------------
\* C4: after any sequence of calls, login answers 200 with a token of type
\* "bearer" whose subject is the user's id exactly when a user of that email is
\* stored and the password verifies against the stored hash; in every other
\* case the answer is the one Unauthorized response, the same for an unknown
\* email as for a wrong password.
C4_LoginIffCredentialsMatch ==
    \A w \in Workers :
        Done(w, "login") =>
            LET form == req[w].form
                match == {i \in 1..Len(users) :
                            /\ users[i].email = form.username
                            /\ verify_password(form.password, users[i].hashed_password)}
            IN  IF match # {}
                THEN /\ resp[w].status = 200
                     /\ resp[w].body.token_type = "bearer"
                     /\ \E i \in match :
                           resp[w].body.access_token.payload.sub = str(users[i].id)
                ELSE resp[w] = Unauthorized

\* a login with the email of a stored user and a password that is not theirs
C4_Witness ==
    \E w \in Workers :
        /\ Done(w, "login")
        /\ resp[w].status = 401
        /\ EmailStored(req[w].form.username)

-----------------------------------------------------------------------------
\* C5: in a sequence of calls, add_friend(user_id, friend_id, name) changes no
\* user; when user_id or friend_id is not stored it stores nothing and answers
\* 404; when both are stored and the pair is not, it stores the one row
\* (user_id, friend_id, name) and answers that triple; when the pair is stored
\* it answers Conflict (400) and leaves the friends table, the stored name
\* included, as it is.
C5_AddFriendOutcomes ==
    [][\A w \in Workers :
        AddFriendStep(w) =>
            LET r == req'[w]
                row == [user_id |-> r.user_id, friend_id |-> r.rq.friend_id,
                        name |-> r.rq.name]
                missing == ~UserStored(r.user_id) \/ ~UserStored(r.rq.friend_id)
                exists == PairStored(r.user_id, r.rq.friend_id)
            IN  /\ users' = users
                /\ missing =>
                      /\ friends' = friends
                      /\ pc'[w] \notin {"add_friend_existing", "add_friend_commit"}
                      /\ (pc'[w] = "done" => resp'[w] = NotFound)
                /\ (~missing /\ exists) =>
                      /\ friends' = friends
                      /\ pc'[w] # "add_friend_commit"
                      /\ (pc'[w] = "done" => IsConflict(resp'[w]))
                /\ (~missing /\ ~exists) =>
                      IF pc'[w] = "done"
                      THEN friends' = Append(friends, row) /\ resp'[w] = Ok(row)
                      ELSE friends' = friends]_vars

\* a second add_friend for a stored pair, under another name, was refused and
\* the stored name stands
C5_Witness ==
    \E w \in Workers :
        /\ Done(w, "add_friend")
        /\ IsConflict(resp[w])
        /\ \E i \in 1..Len(friends) :
              /\ friends[i].user_id = req[w].user_id
              /\ friends[i].friend_id = req[w].rq.friend_id
              /\ friends[i].name # req[w].rq.name

-----------------------------------------------------------------------------
\* C6: the relation is directed.  A successful add_friend(A, B) appends the row
\* (A, B) and nothing else, so for B # A the friendships of B, the friends of
\* get_user(B) and the presence of a row (B, A) are as before; and an
\* add_friend(B, A) made while (B, A) is not stored succeeds although (A, B) is.
C6_FriendshipIsDirected ==
    [][\A w \in Workers :
        (req[w].op = "add_friend" /\ pc[w] # "done" /\ pc'[w] = "done") =>
            LET A == req[w].user_id
                B == req[w].rq.friend_id
            IN  /\ resp'[w].status = 200 =>
                      /\ friends' = Append(friends, [user_id |-> A, friend_id |-> B,
                                                     name |-> req[w].rq.name])
                      /\ A # B =>
                            /\ RowsOfUser(B)' = RowsOfUser(B)
                            /\ User_friends([id |-> B], get_db(w))'
                                   = User_friends([id |-> B], get_db(w))
                            /\ PairStored(B, A)' = PairStored(B, A)
                /\ (PairStored(B, A) /\ ~PairStored(A, B)) => resp'[w].status = 200]_vars

\* add_friend(B, A) has succeeded after add_friend(A, B)
C6_Witness ==
    \E w \in Workers :
        /\ Done(w, "add_friend")
        /\ resp[w].status = 200
        /\ req[w].user_id # req[w].rq.friend_id
        /\ Len(friends) = 2
        /\ friends[1].user_id = req[w].rq.friend_id
        /\ friends[1].friend_id = req[w].user_id

-----------------------------------------------------------------------------
\* C7: for a stored user with n friendships, skip >= 0 and 1 <= limit <= 100,
\* list_friends answers total = n, the skip and the limit it was called with
\* (0 and 10 when left out) and min(limit, max(0, n - skip)) items, each the
\* (friend_id, name) of a friendship of that user, none twice.
C7_ListFriendsPage ==
    \A w \in Workers :
        Done(w, "list_friends") =>
            LET skip == IF req[w].skip = Omitted THEN 0 ELSE req[w].skip[1]
                limit == IF req[w].limit = Omitted THEN 10 ELSE req[w].limit[1]
                rows == RowsOfUser(req[w].user_id)
                n == Len(rows)
            IN  (UserStored(req[w].user_id) /\ skip >= 0 /\ 1 <= limit /\ limit <= 100) =>
                    /\ resp[w].status = 200
                    /\ resp[w].body.total = n
                    /\ resp[w].body.skip = skip
                    /\ resp[w].body.limit = limit
                    /\ LET items == resp[w].body.items
                       IN  /\ Len(items) = Min(limit, Max(0, n - skip))
                           /\ \A i \in 1..Len(items) :
                                 \E k \in 1..n :
                                    /\ rows[k].friend_id = items[i].friend_id
                                    /\ rows[k].name = items[i].name
                           /\ \A i, j \in 1..Len(items) :
                                 i # j => items[i].friend_id # items[j].friend_id

\* the second page of size 1 of a user with two friendships
C7_Witness ==
    \E w \in Workers :
        /\ Done(w, "list_friends")
        /\ resp[w].status = 200
        /\ resp[w].body.total = 2
        /\ resp[w].body.skip = 1
        /\ resp[w].body.limit = 1
        /\ Len(resp[w].body.items) = 1

-----------------------------------------------------------------------------
\* C8: the page list_friends answers for (skip, limit) is the slice
\* [skip, skip + limit) of the user's friendships in the order the add_friend
\* calls stored them.
C8_PageInInsertionOrder ==
    \A w \in Workers :
        (Done(w, "list_friends") /\ resp[w].status = 200) =>
            LET rows == RowsOfUser(req[w].user_id)
                page == SubSeq(rows, resp[w].body.skip + 1,
                               Min(Len(rows), resp[w].body.skip + resp[w].body.limit))
            IN  resp[w].body.items =
                    [i \in 1..Len(page) |->
                        [friend_id |-> page[i].friend_id, name |-> page[i].name]]

-----------------------------------------------------------------------------
\* C9: list_friends checks skip and limit before it looks the user up: with
\* skip < 0, limit < 1 or limit > 100 it answers 400 for any user_id, stored or
\* not, and it answers 404 exactly when skip and limit are in range and the
\* user is not stored.
C9_BoundsBeforeExistence ==
    \A w \in Workers :
        Done(w, "list_friends") =>
            LET skip == IF req[w].skip = Omitted THEN 0 ELSE req[w].skip[1]
                limit == IF req[w].limit = Omitted THEN 10 ELSE req[w].limit[1]
                outOfRange == skip < 0 \/ limit < 1 \/ limit > 100
            IN  /\ outOfRange => resp[w].status = 400
                /\ resp[w].status = 404 <=> (~outOfRange /\ ~UserStored(req[w].user_id))

\* a call for a user that is not stored, with a limit out of range: 400, not 404
C9_Witness ==
    \E w \in Workers :
        /\ Done(w, "list_friends")
        /\ ~UserStored(req[w].user_id)
        /\ req[w].limit = <<101>>
        /\ resp[w].status = 400

-----------------------------------------------------------------------------
\* C10: after any sequence of calls, get_user(id) answers NotFound (404) when
\* no user of that id is stored, and otherwise the user's id, email,
\* is_active = true and a friends list whose ids are, as a set, the friend_id
\* of the stored friendships with user_id = id.
C10_GetUser ==
    \A w \in Workers :
        Done(w, "get_user") =>
            LET id == req[w].user_id
            IN  IF ~UserStored(id)
                THEN resp[w] = NotFound
                ELSE /\ resp[w].status = 200
                     /\ resp[w].body.id = id
                     /\ \E i \in 1..Len(users) :
                           users[i].id = id /\ users[i].email = resp[w].body.email
                     /\ resp[w].body.is_active = TRUE
                     /\ ToSet(resp[w].body.friends) =
                            {friends[i].friend_id :
                                i \in {k \in 1..Len(friends) : friends[k].user_id = id}}

\* get_user of a user with two friendships
C10_Witness ==
    \E w \in Workers :
        /\ Done(w, "get_user")
        /\ resp[w].status = 200
        /\ Len(resp[w].body.friends) = 2

-----------------------------------------------------------------------------
(* C11: /users/me answers with the claims of the presented token exactly    *)
(* when the token is one login issues under the service's secret and the   *)
(* time is not past its exp; a missing, malformed, tampered or expired     *)
(* token gets 401, decode_token returning None for it.  The token of a     *)
(* login carries sub = the id of the user who logged in and exp = the time *)
(* of issue + 60 minutes, and decodes to its claims up to exp and to None  *)
(* after it.                                                               *)

IssuedByLogin(token) == token \in LoginTokens

C11_MeReturnsClaims ==
    \A w \in Workers :
        /\ Done(w, "me") =>
               LET bearer == req[w].token
                   now == req[w].now
               IN  IF bearer # Omitted /\ IssuedByLogin(bearer[1])
                                      /\ now <= bearer[1].payload.exp
                   THEN resp[w] = Ok(bearer[1].payload)
                   ELSE /\ resp[w].status = 401
                        /\ bearer # Omitted =>
                               /\ decode_token(bearer[1], now) = <<>>
                               /\ resp[w] = HTTPException(401, <<"Invalid", "token">>)
        /\ (Done(w, "login") /\ resp[w].status = 200) =>
               LET token == resp[w].body.access_token
                   user == UserByEmail(req[w].form.username)
               IN  /\ user # <<>>
                   /\ token.payload = [sub |-> str(user[1].id), exp |-> req[w].now + 60]
                   /\ \A now \in NowInputs :
                          decode_token(token, now) =
                              IF now <= req[w].now + 60 THEN <<token.payload>> ELSE <<>>

\* a token of login presented in the last minute it is valid in
C11_Witness ==
    \E w \in Workers :
        /\ Done(w, "me")
        /\ resp[w].status = 200
        /\ req[w].now = resp[w].body.exp
        /\ \E i \in 1..Len(users) : resp[w].body.sub = str(users[i].id)

-----------------------------------------------------------------------------
(* C12: a request that uses the store holds exactly one storage session    *)
(* from before its first statement to its end, the same one throughout and *)
(* one no other request holds; the session is eventually closed whichever  *)
(* way the request ends (a response, an HTTPException, an exception of the *)
(* store), and no worker that has finished its request holds a session.    *)

UsesStore(op) == op \in {"create_user", "login", "add_friend", "list_friends", "get_user"}

SessionHeld ==
    \A w \in Workers :
        /\ pc[w] = "idle" => session[w] = "none"
        /\ (pc[w] # "idle" /\ UsesStore(req[w].op)) => session[w] \in SessionIds
        /\ \A v \in Workers \ {w} : session[w] # "none" => session[v] # session[w]

SessionKept ==
    \A w \in Workers :
        session[w] # "none" =>
            \/ session'[w] = session[w]
            \/ session'[w] = "none" /\ pc[w] = "done" /\ pc'[w] = "idle"

C12_SessionPerRequest ==
    /\ []SessionHeld
    /\ [][SessionKept]_vars
    /\ \A w \in Workers : (session[w] # "none") ~> (session[w] = "none")

\* a request that ended in the store's exception holds its session while the
\* other worker holds another one
C12_Witness ==
    \E w \in Workers, v \in Workers :
        /\ pc[w] = "done" /\ resp[w] = InternalServerError
        /\ session[w] \in SessionIds
        /\ v # w /\ session[v] \in SessionIds

-----------------------------------------------------------------------------
(* C13: the store is append-only. Every step leaves the rows that are      *)
(* stored as they are, in both tables; the tables change only in the step  *)
(* that ends a create_user or an add_friend with its 200 response, which   *)
(* appends the one row of the request to the one table; so health, login,  *)
(* me, get_user and list_friends, and a create_user or add_friend that     *)
(* ends in an error (400, 404, or the 500 of a failed commit), leave both  *)
(* tables unchanged.                                                       *)

IsPrefix(s, t) == Len(s) <= Len(t) /\ SubSeq(t, 1, Len(s)) = s

Ends(w) == pc[w] # "done" /\ pc'[w] = "done"

C13_AppendOnly ==
    [][/\ IsPrefix(users, users')
       /\ IsPrefix(friends, friends')
       /\ (users' # users \/ friends' # friends) =>
              \E w \in Workers :
                  /\ Ends(w)
                  /\ resp'[w].status = 200
                  /\ \/ /\ req'[w].op = "create_user"
                        /\ friends' = friends
                        /\ Len(users') = Len(users) + 1
                        /\ users'[Len(users')].id = req'[w].user.userId
                        /\ users'[Len(users')].email = req'[w].user.email
                     \/ /\ req'[w].op = "add_friend"
                        /\ users' = users
                        /\ friends' = Append(friends, [user_id |-> req'[w].user_id,
                                                       friend_id |-> req'[w].rq.friend_id,
                                                       name |-> req'[w].rq.name])
       /\ \A w \in Workers :
              (Ends(w) /\ (req'[w].op \in {"health", "login", "me", "get_user", "list_friends"}
                           \/ resp'[w].status # 200)) =>
                  (users' = users /\ friends' = friends)]_vars

\* with a user and a friendship stored, a create_user has ended in the 500 of
\* a failed commit and the other worker has read the user
C13_Witness ==
    \E w \in Workers, v \in Workers :
        /\ Done(w, "create_user") /\ resp[w] = InternalServerError
        /\ Done(v, "get_user") /\ resp[v].status = 200
        /\ users # <<>> /\ friends # <<>>

-----------------------------------------------------------------------------
(* C14: hash_password and verify_password normalize the password alike, to *)
(* its longest prefix of whole characters within the first 72 bytes of its *)
(* UTF-8 encoding. A registration with password p stores a bcrypt hash of  *)
(* the normalized p, a salted digest and not p itself, which p verifies    *)
(* against, and so does every p' normalizing to the same (any p' that      *)
(* shares the first 72 bytes of a longer p among them); login with a       *)
(* stored email succeeds for the passwords whose normalization is the      *)
(* hashed one, and for no other.                                           *)

RECURSIVE Utf8Bytes(_)
Utf8Bytes(s) == IF s = <<>> THEN 0 ELSE Utf8Len(Head(s)) + Utf8Bytes(Tail(s))

KeptPrefix(p) ==
    LET fits == {k \in 0..Len(p) : Utf8Bytes(SubSeq(p, 1, k)) <= 72}
        n == CHOOSE k \in fits : \A j \in fits : j <= k
    IN  SubSeq(p, 1, n)

SharesFirst72Bytes(p, q) ==
    /\ Len(encode_utf8(p)) > 72
    /\ Len(encode_utf8(q)) >= 72
    /\ SubSeq(encode_utf8(p), 1, 72) = SubSeq(encode_utf8(q), 1, 72)

C14_SameNormalization ==
    \A w \in Workers :
        /\ (Done(w, "create_user") /\ resp[w].status = 200) =>
               \E i \in 1..Len(users), salt \in Salts :
                   LET p == req[w].user.password
                       hashed == users[i].hashed_password
                   IN  /\ users[i].id = req[w].user.userId
                       /\ hashed = bcrypt_hash(KeptPrefix(p), salt)
                       /\ DOMAIN hashed = {"scheme", "salt", "checksum"}
                       /\ verify_password(p, hashed)
                       /\ \A q \in AuthPasswords :
                              /\ KeptPrefix(q) = KeptPrefix(p) => verify_password(q, hashed)
                              /\ SharesFirst72Bytes(p, q) => verify_password(q, hashed)
        /\ Done(w, "login") =>
               LET user == UserByEmail(req[w].form.username)
               IN  IF /\ user # <<>>
                      /\ user[1].hashed_password.checksum
                             = <<user[1].hashed_password.salt,
                                 KeptPrefix(req[w].form.password)>>
                   THEN resp[w].status = 200
                   ELSE resp[w] = Unauthorized

\* a login has succeeded with a password of more than 72 bytes whose
\* character across the limit was dropped
C14_Witness ==
    \E w \in Workers :
        /\ Done(w, "login")
        /\ resp[w].status = 200
        /\ Utf8Bytes(req[w].form.password) > 72
        /\ Utf8Bytes(KeptPrefix(req[w].form.password)) < 72

====
